---- MODULE Spec2Model ----
(***************************************************************************)
(* Model of the jamaro-cup registration server (src/server.js) and of its  *)
(* Entry table (src/models/entry.js).                                      *)
(*                                                                         *)
(* Every HTTP request is a process.  A handler runs without interruption   *)
(* between two awaits, so each action is one such segment together with    *)
(* the store operation it was waiting for; requests interleave at the      *)
(* awaits.  The store executes one operation at a time.  Entry.update of   *)
(* approve / reject is a step of its own, apart from the handler's         *)
(* resumption: another request's UPDATE or sendMail call can come between. *)
(* GET /admin and GET /admin/export.xlsx write nothing; they are part of   *)
(* ListSpec, next to the submissions whose kits they count.                *)
(*                                                                         *)
(* Strings the code takes apart character by character (kits, uniforms)    *)
(* are sequences of one-character strings; a form field that is missing    *)
(* (JavaScript undefined, a NULL column) is the value Undef.  The athlete  *)
(* name, phone, cep and city fields are copied from the form into the row  *)
(* and read by no branch of the code; the row keeps athlete1_name as their *)
(* representative.                                                         *)
(***************************************************************************)
EXTENDS Integers, Sequences, FiniteSets, TLC

VARIABLES
    server,     \* position of the startup IIFE
    entries,    \* the rows of table "entries", in insertion order
    uploads,    \* the files in uploadsDir
    mails,      \* every transporter.sendMail call, in call order
    req         \* the requests: position, inputs, locals, response

vars == <<server, entries, uploads, mails, req>>

----------------------------------------------------------------------------
(* Bounds *)

\* number of requests the server receives in one behaviour
NumReqs == 3

Reqs == 1..NumReqs

\* number of requests the server is handling at the same time
MaxInFlight == 2

----------------------------------------------------------------------------
(* Values *)

Undef == <<"undefined">>
EmptyStr == <<>>

\* JavaScript truthiness of a form or column value (a string or undefined)
Truthy(v) == v # Undef /\ v # EmptyStr

\* v || ''
OrEmpty(v) == IF Truthy(v) THEN v ELSE EmptyStr

Max(a, b) == IF a >= b THEN a ELSE b
Min(a, b) == IF a <= b THEN a ELSE b

(* Strings the code takes apart are sequences of characters: the text
   functions below work on them as String.prototype.trim, split, replace and
   the regular expressions of normalizeKit do. *)

LowerAlpha == <<"a", "b", "c", "d", "e", "f", "g", "h", "i", "j", "k", "l", "m",
                "n", "o", "p", "q", "r", "s", "t", "u", "v", "w", "x", "y", "z">>
UpperAlpha == <<"A", "B", "C", "D", "E", "F", "G", "H", "I", "J", "K", "L", "M",
                "N", "O", "P", "Q", "R", "S", "T", "U", "V", "W", "X", "Y", "Z">>
Digits == {"0", "1", "2", "3", "4", "5", "6", "7", "8", "9"}

AlphaIndex(alpha, c) == CHOOSE k \in 1..Len(alpha) : alpha[k] = c
IsLower(c) == \E k \in 1..Len(LowerAlpha) : LowerAlpha[k] = c
IsUpper(c) == \E k \in 1..Len(UpperAlpha) : UpperAlpha[k] = c

\* String.prototype.toUpperCase / toLowerCase, one character and a string
UpperChar(c) == IF IsLower(c) THEN UpperAlpha[AlphaIndex(LowerAlpha, c)] ELSE c
LowerChar(c) == IF IsUpper(c) THEN LowerAlpha[AlphaIndex(UpperAlpha, c)] ELSE c
toUpperCaseSeq(str) == [k \in 1..Len(str) |-> UpperChar(str[k])]
toLowerCaseSeq(str) == [k \in 1..Len(str) |-> LowerChar(str[k])]

\* \w and \s of a JavaScript regular expression
IsWordChar(c) == IsLower(c) \/ IsUpper(c) \/ c \in Digits \/ c = "_"
IsSpace(c) == c \in {" ", "\t", "\n", "\r"}

\* String.prototype.trim
RECURSIVE trimStart(_)
trimStart(str) ==
    IF str # <<>> /\ IsSpace(Head(str)) THEN trimStart(Tail(str)) ELSE str

RECURSIVE trimEnd(_)
trimEnd(str) ==
    IF str # <<>> /\ IsSpace(str[Len(str)])
    THEN trimEnd(SubSeq(str, 1, Len(str) - 1))
    ELSE str

trim(str) == trimEnd(trimStart(str))

\* str.replace(/\s+/g, ' '): every maximal run of white space becomes one space
RECURSIVE collapseSpaces(_)
collapseSpaces(str) ==
    IF str = <<>> THEN <<>>
    ELSE IF IsSpace(Head(str))
         THEN <<" ">> \o collapseSpaces(trimStart(str))
         ELSE <<Head(str)>> \o collapseSpaces(Tail(str))

\* /^kit\b/i.test(str)
startsWithKit(str) ==
    /\ Len(str) >= 3
    /\ toLowerCaseSeq(SubSeq(str, 1, 3)) = <<"k", "i", "t">>
    /\ (Len(str) = 3 \/ ~IsWordChar(str[4]))

\* index of the last character of the maximal run of word characters that
\* starts at index i
RECURSIVE wordEnd(_, _)
wordEnd(str, i) ==
    IF i < Len(str) /\ IsWordChar(str[i + 1]) THEN wordEnd(str, i + 1) ELSE i

SizeWords == {<<"p", "p">>, <<"p">>, <<"m">>, <<"g">>, <<"g", "g">>,
              <<"g", "g", "g">>, <<"x", "g">>, <<"x", "x", "g">>}

GenderWords == {<<"m", "a", "s", "c", "u", "l", "i", "n", "o">>,
                <<"f", "e", "m", "i", "n", "i", "n", "o">>,
                <<"u", "n", "i", "s", "s", "e", "x">>,
                <<"a", "d", "u", "l", "t", "o">>,
                <<"i", "n", "f", "a", "n", "t", "i", "l">>}

\* str.replace(/\b(pp|p|m|g{1,3}|xg|xxg)\b/gi, m => m.toUpperCase()) from index
\* i on.  A match begins and ends at a word boundary and holds word
\* characters only, so it is a whole maximal run of word characters.
RECURSIVE upperSizes(_, _)
upperSizes(str, i) ==
    IF i > Len(str) THEN <<>>
    ELSE IF ~IsWordChar(str[i]) THEN <<str[i]>> \o upperSizes(str, i + 1)
         ELSE LET j == wordEnd(str, i)
                  w == SubSeq(str, i, j)
              IN  (IF toLowerCaseSeq(w) \in SizeWords THEN toUpperCaseSeq(w) ELSE w)
                      \o upperSizes(str, j + 1)

\* str.replace(/\b(masculino|feminino|unissex|adulto|infantil)\b/gi,
\*             w => w.charAt(0).toUpperCase() + w.slice(1).toLowerCase())
RECURSIVE capitalizeGenders(_, _)
capitalizeGenders(str, i) ==
    IF i > Len(str) THEN <<>>
    ELSE IF ~IsWordChar(str[i]) THEN <<str[i]>> \o capitalizeGenders(str, i + 1)
         ELSE LET j == wordEnd(str, i)
                  w == SubSeq(str, i, j)
              IN  (IF toLowerCaseSeq(w) \in GenderWords
                   THEN <<UpperChar(w[1])>> \o toLowerCaseSeq(Tail(w))
                   ELSE w)
                      \o capitalizeGenders(str, j + 1)

KitPrefix == <<"K", "i", "t">>

normalizeKit(str) ==
    IF ~Truthy(str) THEN EmptyStr
    ELSE LET s1 == collapseSpaces(trim(str))
             s2 == IF startsWithKit(s1) THEN s1 ELSE KitPrefix \o <<" ">> \o s1
             s3 == upperSizes(s2, 1)
             s4 == capitalizeGenders(s3, 1)
         IN  IF startsWithKit(s4) THEN KitPrefix \o SubSeq(s4, 4, Len(s4)) ELSE s4

\* str.includes('/') and str.split('/')
includesSlash(str) == \E k \in 1..Len(str) : str[k] = "/"

RECURSIVE splitSlash(_)
splitSlash(str) ==
    IF ~includesSlash(str) THEN <<str>>
    ELSE LET k == CHOOSE n \in 1..Len(str) :
                      str[n] = "/" /\ \A m \in 1..(n - 1) : str[m] # "/"
         IN  <<SubSeq(str, 1, k - 1)>> \o splitSlash(SubSeq(str, k + 1, Len(str)))

\* array.filter(Boolean) on an array of strings
RECURSIVE filterBoolean(_)
filterBoolean(arr) ==
    IF arr = <<>> THEN <<>>
    ELSE (IF Truthy(Head(arr)) THEN <<Head(arr)>> ELSE <<>>) \o filterBoolean(Tail(arr))

\* e.uniforms.split('/').map(s => (s || '').trim()).filter(Boolean), when
\* uniforms is a string that holds a '/'; nothing otherwise
uniformsParts(uniforms) ==
    IF uniforms # Undef /\ includesSlash(uniforms)
    THEN filterBoolean([k \in 1..Len(splitSlash(uniforms)) |->
                            trim(splitSlash(uniforms)[k])])
    ELSE <<>>

\* const [k1, k2] = parts; if (k1) addKit(k1); if (k2) addKit(k2): the kits the
\* compatibility path counts for one entry
legacyKits(uniforms) ==
    LET parts == uniformsParts(uniforms)
    IN  SubSeq(parts, 1, Min(2, Len(parts)))

\* limits.fileSize of the multer instance
FileSizeLimit == 5 * 1024 * 1024

AllowedMime == {"application/pdf", "image/jpeg", "image/png", "image/webp"}

fileFilter_AcceptAll(file) == TRUE

\* fileFilter of the multer instance: TRUE when the file is accepted
fileFilter(file) == file.mimetype \in AllowedMime

\* path.extname on the original names the model uploads
extname(name) ==
    CASE name = "proof.pdf"  -> ".pdf"
      [] name = "SCAN.PDF"   -> ".PDF"
      [] name = "photo.png"  -> ".png"
      [] name = "virus.exe"  -> ".exe"
      [] name = "huge.pdf"   -> ".pdf"
      [] name = "receipt"    -> ""
      [] OTHER               -> ""

\* String.prototype.toLowerCase on those extensions
toLowerCase(ext) ==
    CASE ext = ".PDF" -> ".pdf"
      [] OTHER        -> ext

\* sha256File: the digest depends on the bytes alone, and distinct contents
\* of the model have distinct digests
sha256File(content) == <<"sha256", content>>

GoodExts == {".pdf", ".jpg", ".jpeg", ".png", ".webp"}

computeScore_NoClamp(entryLike, fileExtLower) ==
    LET s1 == 50 + (IF fileExtLower \in GoodExts THEN 10 ELSE 0)
        s2 == s1 + (IF Truthy(entryLike.athlete1_email) /\ Truthy(entryLike.athlete2_email)
                    THEN 10 ELSE 0)
        s3 == s2 + (IF Truthy(entryLike.athlete1_kit) /\ Truthy(entryLike.athlete2_kit)
                    THEN 10 ELSE 0)
        s4 == s3 + (IF Truthy(entryLike.duo_name) THEN 10 ELSE 0)
        s5 == s4 + (IF Truthy(entryLike.duo_category) THEN 10 ELSE 0)
        s6 == s5 + (IF Truthy(entryLike.duo_instagram) THEN 5 ELSE 0)
        s7 == s6 - (IF ~entryLike.consent THEN 20 ELSE 0)
    IN  s7

computeScore_ClampFirst(entryLike, fileExtLower) ==
    LET s1 == 50 + (IF fileExtLower \in GoodExts THEN 10 ELSE 0)
        s2 == s1 + (IF Truthy(entryLike.athlete1_email) /\ Truthy(entryLike.athlete2_email)
                    THEN 10 ELSE 0)
        s3 == s2 + (IF Truthy(entryLike.athlete1_kit) /\ Truthy(entryLike.athlete2_kit)
                    THEN 10 ELSE 0)
        s4 == s3 + (IF Truthy(entryLike.duo_name) THEN 10 ELSE 0)
        s5 == s4 + (IF Truthy(entryLike.duo_category) THEN 10 ELSE 0)
        s6 == s5 + (IF Truthy(entryLike.duo_instagram) THEN 5 ELSE 0)
        s7 == Min(100, s6) - (IF ~entryLike.consent THEN 20 ELSE 0)
    IN  Max(0, s7)

computeScore(entryLike, fileExtLower) ==
    LET s1 == 50 + (IF fileExtLower \in GoodExts THEN 10 ELSE 0)
        s2 == s1 + (IF Truthy(entryLike.athlete1_email) /\ Truthy(entryLike.athlete2_email)
                    THEN 10 ELSE 0)
        s3 == s2 + (IF Truthy(entryLike.athlete1_kit) /\ Truthy(entryLike.athlete2_kit)
                    THEN 10 ELSE 0)
        s4 == s3 + (IF Truthy(entryLike.duo_name) THEN 10 ELSE 0)
        s5 == s4 + (IF Truthy(entryLike.duo_category) THEN 10 ELSE 0)
        s6 == s5 + (IF Truthy(entryLike.duo_instagram) THEN 5 ELSE 0)
        s7 == s6 - (IF ~entryLike.consent THEN 20 ELSE 0)
    IN  Max(0, Min(100, s7))

----------------------------------------------------------------------------
(* Inputs *)

NoFile == [present |-> FALSE, originalname |-> "", mimetype |-> "", size |-> 0,
           content |-> ""]

MkFile(name, mime, size, content) ==
    [present |-> TRUE, originalname |-> name, mimetype |-> mime, size |-> size,
     content |-> content]

\* the uploads a submit request may carry: the same bytes under two names and
\* two declared types, other bytes of exactly the size limit, a refused type,
\* a file one byte over the limit
ProofPdf == MkFile("proof.pdf", "application/pdf", 1024, "A")
ScanPdf  == MkFile("SCAN.PDF",  "image/jpeg",      1024, "A")
PhotoPng == MkFile("photo.png", "image/png",       FileSizeLimit, "B")
VirusExe == MkFile("virus.exe", "application/x-msdownload", 1024, "A")
HugePdf  == MkFile("huge.pdf",  "application/pdf", FileSizeLimit + 1, "D")

MkForm(n1, e1, k1, e2, k2, dn, dc, di, at) ==
    [name1 |-> n1, email1 |-> e1, kit1 |-> k1, email2 |-> e2, kit2 |-> k2,
     duo_name |-> dn, duo_category |-> dc, duo_instagram |-> di, acceptTerms |-> at]

NoForm == MkForm(Undef, Undef, Undef, Undef, Undef, Undef, Undef, Undef, Undef)

Ana    == <<"A", "n", "a">>
MailA  == <<"a", "@", "x">>
MailB  == <<"b", "@", "x">>
KitM   == <<"M">>
KitG   == <<"G">>
Duo    == <<"D", "u", "o">>
Elite  == <<"E", "l", "i", "t", "e">>
Insta  == <<"@", "d">>
On     == <<"o", "n">>

\* the form bodies a submit request may carry: every field filled in; the
\* optional fields empty or missing, the category empty; the category missing
FullForm  == MkForm(Ana, MailA, KitM, MailB, KitG, Duo, Elite, Insta, On)
BlankForm == MkForm(Ana, Undef, KitM, EmptyStr, EmptyStr, EmptyStr, EmptyStr, Undef, Undef)
NoCatForm == MkForm(Ana, MailA, Undef, Undef, KitG, Duo, Undef, Undef, On)

\* the submissions a client may send
Submissions == {
    <<ProofPdf, FullForm>>,
    <<ScanPdf,  NoCatForm>>,
    <<PhotoPng, BlankForm>>,
    <<VirusExe, FullForm>>,
    <<HugePdf,  FullForm>>,
    <<NoFile,   FullForm>> }

----------------------------------------------------------------------------
(* Rows, responses, requests *)

NoEntry ==
    [id |-> 0, submittedAt |-> 0, athlete1_name |-> Undef,
     athlete1_email |-> Undef, athlete1_kit |-> Undef,
     athlete2_email |-> Undef, athlete2_kit |-> Undef,
     duo_name |-> Undef, duo_category |-> Undef, duo_instagram |-> Undef,
     consent |-> FALSE, uniforms |-> Undef,
     paymentProof |-> <<0, "">>, fileHash |-> <<"sha256", "">>,
     status |-> "", validation_score |-> 0, validation_mime |-> ""]

NoResp == [status |-> 0, location |-> ""]
Send(code) == [status |-> code, location |-> ""]
Redirect(to) == [status |-> 302, location |-> to]

IdleReq ==
    [pc |-> "idle", kind |-> "none", file |-> NoFile, body |-> NoForm, id |-> 0,
     finalName |-> <<0, "">>, fileHash |-> <<"sha256", "">>, entry |-> NoEntry,
     resp |-> NoResp, rejected |-> "", err |-> "", created |-> 0,
     updated |-> FALSE, mail |-> 0,
     where |-> [category |-> EmptyStr, status |-> ""], listed |-> <<>>,
     totals |-> <<>>]

\* Fields of a request that are not program state but a record of what the
\* request did: rejected (the upload check that refused it), err (the store
\* or validation error it met), created (the id of the row it inserted),
\* updated (its UPDATE ran), mail (the index of its sendMail call in mails).
\* A listing or export request keeps the rows its query returned (listed) and
\* the uniformTotals it rendered (totals).

\* The rows that match a where clause on the primary key / on fileHash.  A
\* row keeps the fileHash the handler hands to Entry.create and looks up with
\* Entry.findOne; the Entry model declares no index on it, unique or not, so
\* the store refuses no INSERT on account of it.
RowsById(id) == {i \in 1..Len(entries) : entries[i].id = id}
RowsByHash(h) == {i \in 1..Len(entries) : entries[i].fileHash = h}

----------------------------------------------------------------------------
(* Startup *)

Init ==
    /\ server = "starting"
    /\ entries = <<>>
    /\ uploads = {}
    /\ mails = <<>>
    /\ req = [r \in Reqs |-> IdleReq]

\* await sequelize.authenticate(); a failure is caught and the process exits
Authenticate ==
    /\ server = "starting"
    /\ \E ok \in BOOLEAN : server' = IF ok THEN "authenticated" ELSE "exited"
    /\ UNCHANGED <<entries, uploads, mails, req>>

\* await sequelize.sync({ alter: true }); a failure is caught and the process exits
Sync ==
    /\ server = "authenticated"
    /\ \E ok \in BOOLEAN : server' = IF ok THEN "synced" ELSE "exited"
    /\ UNCHANGED <<entries, uploads, mails, req>>

Listen_BeforeSync ==
    /\ server \in {"authenticated", "synced"}
    /\ server' = "listening"
    /\ UNCHANGED <<entries, uploads, mails, req>>

\* app.listen(PORT)
Listen ==
    /\ server = "synced"
    /\ server' = "listening"
    /\ UNCHANGED <<entries, uploads, mails, req>>

----------------------------------------------------------------------------
(* Requests arrive *)

CanArrive(r) ==
    /\ server = "listening"
    /\ req[r].pc = "idle"
    /\ Cardinality({q \in Reqs : req[q].pc \notin {"idle", "done", "unhandled"}}) < MaxInFlight
    /\ IF r = 1 THEN TRUE ELSE req[r - 1].pc # "idle"

\* the ids a reviewer may send
ReviewIds == {1, 2}

\* POST /admin/entries/:id/approve or /admin/entries/:id/reject
ArriveReview(r) ==
    /\ CanArrive(r)
    /\ \E kind \in {"approve", "reject"}, id \in ReviewIds :
          req' = [req EXCEPT ![r] = [IdleReq EXCEPT !.pc = "findByPk", !.kind = kind,
                                                    !.id = id]]
    /\ UNCHANGED <<server, entries, uploads, mails>>

----------------------------------------------------------------------------
(* POST /submit *)

\* the name multer generates for the upload of request r, and the name the
\* handler renames it to
TempName(r) == <<r, "">>
FinalName(r, file) == <<r, toLowerCase(extname(file.originalname))>>

\* upload.single('paymentProof'): the fileFilter runs before any byte is
\* stored; an upload over limits.fileSize is removed again; either error goes
\* to Express's default error handler, which answers 500.  An accepted upload
\* is stored in dest (uploadsDir) under the generated name and the handler is
\* called; without a file the handler is called with req.file undefined.
UploadSingle(file) ==
    IF ~file.present THEN "nofile"
    ELSE IF ~fileFilter(file) THEN "mimetype"
    ELSE IF file.size > FileSizeLimit THEN "fileSize"
    ELSE "stored"

\* POST /submit with the multipart body s (an upload or none, and the form
\* fields): upload.single, then the handler up to its first await: the file
\* check, renameSync of the stored upload, sha256File of the renamed file and
\* the call of Entry.findOne
SubmitHandler(r, s) ==
    /\ CanArrive(r)
    /\ LET file == s[1]
           arrived == [IdleReq EXCEPT !.kind = "submit", !.file = file, !.body = s[2]]
           stored == uploads \cup {[name |-> TempName(r), content |-> file.content]}
           finalName == FinalName(r, file)
           renamed == {f \in stored : f.name # TempName(r)}
                        \cup {[name |-> finalName,
                               content |-> (CHOOSE f \in stored : f.name = TempName(r)).content]}
           fileHash == sha256File((CHOOSE f \in renamed : f.name = finalName).content)
       IN  CASE UploadSingle(file) \in {"mimetype", "fileSize"} ->
                  /\ req' = [req EXCEPT ![r] = [arrived EXCEPT !.pc = "done",
                                                   !.rejected = UploadSingle(file),
                                                   !.resp = Send(500)]]
                  /\ UNCHANGED uploads
             [] UploadSingle(file) = "nofile" ->
                  /\ req' = [req EXCEPT ![r] = [arrived EXCEPT !.pc = "done",
                                                   !.rejected = "nofile",
                                                   !.resp = Send(400)]]
                  /\ UNCHANGED uploads
             [] UploadSingle(file) = "stored" ->
                  /\ uploads' = renamed
                  /\ req' = [req EXCEPT ![r] = [arrived EXCEPT !.pc = "findOne",
                                                   !.finalName = finalName,
                                                   !.fileHash = fileHash]]
    /\ UNCHANGED <<server, entries, mails>>

\* new Date() of the n-th Entry.create call
Now == Cardinality({q \in Reqs : req[q].entry.submittedAt > 0 /\ req[q].kind = "submit"}) + 1

\* the values handed to Entry.create
EntryValues(r) ==
    LET b == req[r].body
        entryLike ==
            [athlete1_name |-> b.name1, athlete1_email |-> b.email1,
             athlete1_kit |-> b.kit1,
             athlete2_email |-> b.email2, athlete2_kit |-> b.kit2,
             duo_name |-> b.duo_name, duo_category |-> b.duo_category,
             duo_instagram |-> b.duo_instagram,
             consent |-> Truthy(b.acceptTerms)]
        score == computeScore(entryLike, toLowerCase(extname(req[r].file.originalname)))
    IN  [id |-> 0, submittedAt |-> Now,
         athlete1_name |-> entryLike.athlete1_name,
         athlete1_email |-> entryLike.athlete1_email,
         athlete1_kit |-> entryLike.athlete1_kit,
         athlete2_email |-> entryLike.athlete2_email,
         athlete2_kit |-> entryLike.athlete2_kit,
         duo_name |-> entryLike.duo_name,
         duo_category |-> entryLike.duo_category,
         duo_instagram |-> entryLike.duo_instagram,
         consent |-> entryLike.consent,
         uniforms |-> OrEmpty(b.kit1) \o <<" ", "/", " ">> \o OrEmpty(b.kit2),
         paymentProof |-> req[r].finalName,
         fileHash |-> req[r].fileHash,
         status |-> "pending_review",
         validation_score |-> score,
         validation_mime |-> req[r].file.mimetype]

SubmitFindOne_NoDupCheck(r) ==
    /\ req[r].pc = "findOne"
    /\ \E ok \in BOOLEAN :
          IF ~ok
          THEN req' = [req EXCEPT ![r].pc = "done", ![r].err = "store",
                                  ![r].resp = Send(500)]
          ELSE req' = [req EXCEPT ![r].pc = "create", ![r].entry = EntryValues(r)]
    /\ UNCHANGED <<server, entries, uploads, mails>>

SubmitFindOne_Unlink(r) ==
    /\ req[r].pc = "findOne"
    /\ \E ok \in BOOLEAN :
          IF ~ok
          THEN /\ req' = [req EXCEPT ![r].pc = "done", ![r].err = "store",
                                     ![r].resp = Send(500)]
               /\ UNCHANGED uploads
          ELSE IF RowsByHash(req[r].fileHash) # {}
          THEN /\ req' = [req EXCEPT ![r].pc = "done", ![r].resp = Send(409)]
               /\ uploads' = {f \in uploads : f.name # req[r].finalName}
          ELSE /\ req' = [req EXCEPT ![r].pc = "create", ![r].entry = EntryValues(r)]
               /\ UNCHANGED uploads
    /\ UNCHANGED <<server, entries, mails>>

\* Entry.findOne({ where: { fileHash } }) and the handler up to its next
\* await: the duplicate check, entryLike, computeScore and the call of
\* Entry.create.  A failed query is caught by the handler's catch.
SubmitFindOne(r) ==
    /\ req[r].pc = "findOne"
    /\ \E ok \in BOOLEAN :
          IF ~ok
          THEN req' = [req EXCEPT ![r].pc = "done", ![r].err = "store",
                                  ![r].resp = Send(500)]
          ELSE IF RowsByHash(req[r].fileHash) # {}
          THEN req' = [req EXCEPT ![r].pc = "done", ![r].resp = Send(409)]
          ELSE req' = [req EXCEPT ![r].pc = "create", ![r].entry = EntryValues(r)]
    /\ UNCHANGED <<server, entries, uploads, mails>>

\* the column constraints of the Entry model: allowNull: false
Validates(values) ==
    /\ values.submittedAt # 0
    /\ values.duo_category # Undef

\* defaultValue of id: a fresh uuid
NewId == Len(entries) + 1

\* Entry.create: validation, then the INSERT; then the redirect, or the
\* handler's catch
SubmitCreate(r) ==
    /\ req[r].pc = "create"
    /\ \E ok \in BOOLEAN :
          IF ~Validates(req[r].entry)
          THEN /\ req' = [req EXCEPT ![r].pc = "done", ![r].err = "validation",
                                     ![r].resp = Send(500)]
               /\ UNCHANGED entries
          ELSE IF ~ok
          THEN /\ req' = [req EXCEPT ![r].pc = "done", ![r].err = "store",
                                     ![r].resp = Send(500)]
               /\ UNCHANGED entries
          ELSE /\ entries' = Append(entries, [req[r].entry EXCEPT !.id = NewId])
               /\ req' = [req EXCEPT ![r].pc = "done", ![r].created = NewId,
                                     ![r].resp = Redirect("/obrigado.html")]
    /\ UNCHANGED <<server, uploads, mails>>

----------------------------------------------------------------------------
(* POST /admin/entries/:id/approve and /reject *)

TargetStatus(kind) == IF kind = "approve" THEN "accepted" ELSE "rejected"

\* A store call fails in a handler that has no try/catch: the handler's
\* promise rejects and the handler sends nothing.  What the caller gets is
\* the framework's doing: a router that does not look at the promise
\* (Express 4) leaves the request without a response, and the rejection
\* unhandled; a router that forwards the rejection to the default error
\* handler (Express 5) answers 500.  The repository pins neither.
Rejects(r) ==
    {[req[r] EXCEPT !.pc = "unhandled", !.err = "store"],
     [req[r] EXCEPT !.pc = "done", !.err = "store", !.resp = Send(500)]}

ReviewFindByPk_NoNotFound(r) ==
    /\ req[r].pc = "findByPk"
    /\ \E ok \in BOOLEAN :
          IF ~ok
          THEN \E q \in Rejects(r) : req' = [req EXCEPT ![r] = q]
          ELSE req' = [req EXCEPT ![r].pc = "update",
                                  ![r].entry = IF RowsById(req[r].id) = {} THEN NoEntry
                                               ELSE entries[CHOOSE i \in RowsById(req[r].id) : TRUE]]
    /\ UNCHANGED <<server, entries, uploads, mails>>

\* Entry.findByPk(id), the 404 and the call of Entry.update
ReviewFindByPk(r) ==
    /\ req[r].pc = "findByPk"
    /\ \E ok \in BOOLEAN :
          IF ~ok
          THEN \E q \in Rejects(r) : req' = [req EXCEPT ![r] = q]
          ELSE IF RowsById(req[r].id) = {}
          THEN req' = [req EXCEPT ![r].pc = "done", ![r].resp = Send(404)]
          ELSE req' = [req EXCEPT ![r].pc = "update",
                                  ![r].entry = entries[CHOOSE i \in RowsById(req[r].id) : TRUE]]
    /\ UNCHANGED <<server, entries, uploads, mails>>

\* the recipients of sendStatusEmail: the athletes' e-mail addresses that are set
Recipients(entry) ==
    SelectSeq(<<entry.athlete1_email, entry.athlete2_email>>, Truthy)

ReviewUpdate_ResetsScore(r) ==
    /\ req[r].pc = "update"
    /\ \E ok \in BOOLEAN :
          IF ~ok
          THEN /\ \E q \in Rejects(r) : req' = [req EXCEPT ![r] = q]
               /\ UNCHANGED entries
          ELSE /\ entries' = [i \in 1..Len(entries) |->
                                IF i \in RowsById(req[r].id)
                                THEN [entries[i] EXCEPT !.status = TargetStatus(req[r].kind),
                                                        !.validation_score = 0]
                                ELSE entries[i]]
               /\ req' = [req EXCEPT ![r].pc = "sendStatusEmail", ![r].updated = TRUE]
    /\ UNCHANGED <<server, uploads, mails>>

ReviewUpdate_NotifyOnFailure(r) ==
    /\ req[r].pc = "update"
    /\ \E ok \in BOOLEAN :
          IF ~ok
          THEN /\ req' = [req EXCEPT ![r].pc = "sendStatusEmail"]
               /\ UNCHANGED entries
          ELSE /\ entries' = [i \in 1..Len(entries) |->
                                IF i \in RowsById(req[r].id)
                                THEN [entries[i] EXCEPT !.status = TargetStatus(req[r].kind)]
                                ELSE entries[i]]
               /\ req' = [req EXCEPT ![r].pc = "sendStatusEmail", ![r].updated = TRUE]
    /\ UNCHANGED <<server, uploads, mails>>

\* Entry.update({ status }, { where: { id } }) runs in the store
ReviewUpdate(r) ==
    /\ req[r].pc = "update"
    /\ \E ok \in BOOLEAN :
          IF ~ok
          THEN /\ \E q \in Rejects(r) : req' = [req EXCEPT ![r] = q]
               /\ UNCHANGED entries
          ELSE /\ entries' = [i \in 1..Len(entries) |->
                                IF i \in RowsById(req[r].id)
                                THEN [entries[i] EXCEPT !.status = TargetStatus(req[r].kind)]
                                ELSE entries[i]]
               /\ req' = [req EXCEPT ![r].pc = "sendStatusEmail", ![r].updated = TRUE]
    /\ UNCHANGED <<server, uploads, mails>>

sendStatusEmail_OnlyOnChange(r) ==
    /\ req[r].pc = "sendStatusEmail"
    /\ IF \/ Recipients(req[r].entry) = <<>>
          \/ req[r].entry.status = TargetStatus(req[r].kind)
       THEN /\ req' = [req EXCEPT ![r].pc = "done", ![r].resp = Redirect("/admin")]
            /\ UNCHANGED mails
       ELSE /\ mails' = Append(mails, [id |-> req[r].entry.id,
                                       status |-> TargetStatus(req[r].kind),
                                       req |-> r, state |-> "pending"])
            /\ req' = [req EXCEPT ![r].pc = "sendMail", ![r].mail = Len(mails) + 1]
    /\ UNCHANGED <<server, entries, uploads>>

\* the handler after its await of Entry.update: sendStatusEmail(entry, status)
\* up to its await of transporter.sendMail; without recipients it returns at
\* once and the handler redirects
sendStatusEmail(r) ==
    /\ req[r].pc = "sendStatusEmail"
    /\ IF Recipients(req[r].entry) = <<>>
       THEN /\ req' = [req EXCEPT ![r].pc = "done", ![r].resp = Redirect("/admin")]
            /\ UNCHANGED mails
       ELSE /\ mails' = Append(mails, [id |-> req[r].entry.id,
                                       status |-> TargetStatus(req[r].kind),
                                       req |-> r, state |-> "pending"])
            /\ req' = [req EXCEPT ![r].pc = "sendMail", ![r].mail = Len(mails) + 1]
    /\ UNCHANGED <<server, entries, uploads>>

\* transporter.sendMail resolves; sendStatusEmail returns and the handler redirects
SendMailOk(r) ==
    /\ req[r].pc = "sendMail"
    /\ mails' = [mails EXCEPT ![req[r].mail].state = "sent"]
    /\ req' = [req EXCEPT ![r].pc = "done", ![r].resp = Redirect("/admin")]
    /\ UNCHANGED <<server, entries, uploads>>

SendMailFail_Surfaced(r) ==
    /\ req[r].pc = "sendMail"
    /\ mails' = [mails EXCEPT ![req[r].mail].state = "failed"]
    /\ req' = [req EXCEPT ![r].pc = "done", ![r].resp = Send(500)]
    /\ UNCHANGED <<server, entries, uploads>>

\* transporter.sendMail rejects; sendStatusEmail logs the error and returns,
\* and the handler redirects
SendMailFail(r) ==
    /\ req[r].pc = "sendMail"
    /\ mails' = [mails EXCEPT ![req[r].mail].state = "failed"]
    /\ req' = [req EXCEPT ![r].pc = "done", ![r].resp = Redirect("/admin")]
    /\ UNCHANGED <<server, entries, uploads>>

----------------------------------------------------------------------------
(* GET /admin and GET /admin/export.xlsx *)

\* the where clause built from req.query, and the rows it selects
MatchesWhere(e, where) ==
    /\ Truthy(where.category) => e.duo_category = where.category
    /\ where.status # "" => e.status = where.status

\* order: [['submittedAt', 'DESC']] over the rows at the indices in S
RECURSIVE orderDesc(_)
orderDesc(S) ==
    IF S = {} THEN <<>>
    ELSE LET i == CHOOSE i \in S :
                      \A j \in S : entries[j].submittedAt <= entries[i].submittedAt
         IN  <<entries[i]>> \o orderDesc(S \ {i})

findAll(where) == orderDesc({i \in 1..Len(entries) : MatchesWhere(entries[i], where)})

\* array.join(' ')
RECURSIVE joinSpace(_)
joinSpace(arr) ==
    IF arr = <<>> THEN <<>>
    ELSE IF Len(arr) = 1 THEN Head(arr)
    ELSE Head(arr) \o <<" ">> \o joinSpace(Tail(arr))

RECURSIVE concatAll(_)
concatAll(seqs) == IF seqs = <<>> THEN <<>> ELSE Head(seqs) \o concatAll(Tail(seqs))

\* addKit of GET /admin: the keys one call increments (one or none)
adminAddKit(size, gender) ==
    LET label == joinSpace(filterBoolean(<<KitPrefix, trim(OrEmpty(size)),
                                           trim(OrEmpty(gender))>>))
        key == normalizeKit(label)
    IN  IF ~Truthy(key) THEN <<>> ELSE <<key>>

\* the body of the loop of GET /admin for one row.  The rows come with raw:
\* true and the table has no athlete1_kit_gender / athlete2_kit_gender column,
\* so the gender argument is undefined; the compatibility path passes null.
adminKitKeys(e) ==
    LET ks == legacyKits(e.uniforms)
    IN  adminAddKit(e.athlete1_kit, Undef)
            \o adminAddKit(e.athlete2_kit, Undef)
            \o concatAll([k \in 1..Len(ks) |-> adminAddKit(ks[k], Undef)])

\* addKit of GET /admin/export.xlsx
exportAddKit(raw) ==
    LET key == normalizeKit(raw)
    IN  IF ~Truthy(key) THEN <<>> ELSE <<key>>

\* the body of the loop of GET /admin/export.xlsx for one row
exportKitKeys(e) ==
    LET ks == legacyKits(e.uniforms)
    IN  (IF Truthy(e.athlete1_kit) THEN exportAddKit(e.athlete1_kit) ELSE <<>>)
            \o (IF Truthy(e.athlete2_kit) THEN exportAddKit(e.athlete2_kit) ELSE <<>>)
            \o concatAll([k \in 1..Len(ks) |-> exportAddKit(ks[k])])

\* uniformTotals after the increments of keys, one after the other
uniformTotals(keys) ==
    [key \in {keys[k] : k \in 1..Len(keys)} |->
        Cardinality({k \in 1..Len(keys) : keys[k] = key})]

adminTotals(rows) ==
    uniformTotals(concatAll([k \in 1..Len(rows) |-> adminKitKeys(rows[k])]))

exportTotals(rows) ==
    uniformTotals(concatAll([k \in 1..Len(rows) |-> exportKitKeys(rows[k])]))

\* the filters a reviewer may ask for
ListQueries ==
    {[category |-> EmptyStr, status |-> ""],
     [category |-> Elite, status |-> "pending_review"]}

\* GET /admin or GET /admin/export.xlsx up to the first Entry.findAll
ArriveList(r) ==
    /\ CanArrive(r)
    /\ \E kind \in {"admin", "export"}, where \in ListQueries :
          req' = [req EXCEPT ![r] = [IdleReq EXCEPT !.pc = "findAll", !.kind = kind,
                                                    !.where = where]]
    /\ UNCHANGED <<server, entries, uploads, mails>>

\* Entry.findAll({ where, order }).  The export goes on to the totals and
\* the workbook; the listing to its second query.  Neither handler has a
\* try/catch.
ListFindAll(r) ==
    /\ req[r].pc = "findAll"
    /\ \E ok \in BOOLEAN :
          IF ~ok
          THEN \E q \in Rejects(r) : req' = [req EXCEPT ![r] = q]
          ELSE IF req[r].kind = "admin"
          THEN req' = [req EXCEPT ![r].pc = "categories",
                                  ![r].listed = findAll(req[r].where)]
          ELSE req' = [req EXCEPT ![r].pc = "done",
                                  ![r].listed = findAll(req[r].where),
                                  ![r].totals = exportTotals(findAll(req[r].where)),
                                  ![r].resp = Send(200)]
    /\ UNCHANGED <<server, entries, uploads, mails>>

\* Entry.findAll({ attributes: ['duo_category'], group }) of GET /admin, then
\* the totals over the rows of the first query and res.render
AdminCategories(r) ==
    /\ req[r].pc = "categories"
    /\ \E ok \in BOOLEAN :
          IF ~ok
          THEN \E q \in Rejects(r) : req' = [req EXCEPT ![r] = q]
          ELSE req' = [req EXCEPT ![r].pc = "done",
                                  ![r].totals = adminTotals(req[r].listed),
                                  ![r].resp = Send(200)]
    /\ UNCHANGED <<server, entries, uploads, mails>>

----------------------------------------------------------------------------
(* Specification *)

Next ==
    \/ Authenticate
    \/ Sync
    \/ Listen
    \/ \E r \in Reqs :
          \/ \E s \in Submissions : SubmitHandler(r, s)
          \/ ArriveReview(r)
          \/ SubmitFindOne(r)
          \/ SubmitCreate(r)
          \/ ReviewFindByPk(r)
          \/ ReviewUpdate(r)
          \/ sendStatusEmail(r)
          \/ SendMailOk(r)
          \/ SendMailFail(r)

Spec == Init /\ [][Next]_vars

\* the same server when the client sends a request only after every earlier
\* one has ended
Quiet == \A q \in Reqs : req[q].pc \in {"idle", "done", "unhandled"}

SeqNext ==
    \/ Authenticate
    \/ Sync
    \/ Listen
    \/ \E r \in Reqs :
          \/ Quiet /\ \E s \in Submissions : SubmitHandler(r, s)
          \/ Quiet /\ ArriveReview(r)
          \/ SubmitFindOne(r)
          \/ SubmitCreate(r)
          \/ ReviewFindByPk(r)
          \/ ReviewUpdate(r)
          \/ sendStatusEmail(r)
          \/ SendMailOk(r)
          \/ SendMailFail(r)

SeqSpec == Init /\ [][SeqNext]_vars

----------------------------------------------------------------------------
(* One submission, over every combination of the fields computeScore reads *)

Opt(v) == {Undef, v}

ScoreForms ==
    {MkForm(Ana, e1, k1, e2, k2, dn, dc, di, at) :
        e1 \in Opt(MailA), k1 \in Opt(KitM), e2 \in Opt(MailB), k2 \in Opt(KitG),
        dn \in Opt(Duo), dc \in {Undef, EmptyStr, Elite}, di \in Opt(Insta),
        at \in Opt(On)}

ScoreFiles == {ProofPdf, ScanPdf, MkFile("receipt", "image/png", 1024, "B")}

ScoreInit ==
    /\ server = "listening"
    /\ entries = <<>>
    /\ uploads = {}
    /\ mails = <<>>
    /\ req = [r \in Reqs |-> IdleReq]

ScoreNext ==
    \/ \E s \in ScoreFiles \X ScoreForms : SubmitHandler(1, s)
    \/ SubmitFindOne(1)
    \/ SubmitCreate(1)

ScoreSpec == ScoreInit /\ [][ScoreNext]_vars

----------------------------------------------------------------------------
(* Submissions with kits spelled in several ways, then the listing and the
   export, one request after the other.  The table may hold a row of an
   earlier version of the form, which wrote the kits to uniforms alone. *)

KitMasc      == <<"m", " ", "m", "a", "s", "c", "u", "l", "i", "n", "o">>
KitMascWide  == <<"M", " ", " ", " ", "M", "a", "s", "c", "u", "l", "i", "n", "o">>
KitMascNamed == KitPrefix \o <<" ", "M", " ", "M", "a", "s", "c", "u", "l", "i", "n", "o">>

KitForm(k1, k2) == MkForm(Ana, MailA, k1, MailB, k2, Duo, Elite, Insta, On)

KitSubmissions == {
    <<ProofPdf, KitForm(KitMasc, KitG)>>,
    <<ProofPdf, KitForm(KitMascNamed, KitMasc)>>,
    <<ProofPdf, KitForm(KitG, EmptyStr)>>,
    <<PhotoPng, KitForm(KitMascWide, KitMasc)>>,
    <<PhotoPng, KitForm(Undef, KitG)>> }

Open == <<"O", "p", "e", "n">>

LegacyUniforms ==
    {<<"M", " ", "/", " ", "G">>, <<"g", " ", "/", " ">>, <<"p", "p", "/", "M", "/", "G">>}

LegacyRow(u) ==
    [NoEntry EXCEPT !.id = 1, !.submittedAt = -1, !.athlete1_name = Ana,
                    !.athlete1_email = MailA, !.duo_name = Duo,
                    !.duo_category = Open, !.uniforms = u,
                    !.paymentProof = <<0, ".pdf">>, !.fileHash = <<"sha256", "L">>,
                    !.status = "pending_review", !.validation_score = 70,
                    !.validation_mime = "application/pdf"]

ListInit ==
    /\ server = "listening"
    /\ entries \in {<<>>} \cup {<<LegacyRow(u)>> : u \in LegacyUniforms}
    /\ uploads = {}
    /\ mails = <<>>
    /\ req = [r \in Reqs |-> IdleReq]

ListNext ==
    \E r \in Reqs :
        \/ Quiet /\ \E s \in KitSubmissions : SubmitHandler(r, s)
        \/ Quiet /\ ArriveList(r)
        \/ SubmitFindOne(r)
        \/ SubmitCreate(r)
        \/ ListFindAll(r)
        \/ AdminCategories(r)

ListSpec == ListInit /\ [][ListNext]_vars

----------------------------------------------------------------------------
(* Properties *)

Rows == 1..Len(entries)
Submits == {r \in Reqs : req[r].kind = "submit"}
Reviews == {r \in Reqs : req[r].kind \in {"approve", "reject"}}

\* C1: when two submissions of the same bytes race, no two rows ever share a
\* fingerprint, and a submission that ends without an error while a row it
\* did not create holds its fingerprint has been answered 409.
C1_FingerprintBackstop ==
    /\ \A i, j \in Rows : entries[i].fileHash = entries[j].fileHash => i = j
    /\ \A r \in Submits :
          (/\ req[r].pc = "done"
           /\ req[r].err = ""
           /\ \E i \in Rows : /\ entries[i].fileHash = req[r].fileHash
                              /\ entries[i].id # req[r].created)
          => req[r].resp.status = 409

\* requests r1 and r2, handled in this order, have uploaded the same bytes
SameBytes(r1, r2) ==
    /\ r1 < r2
    /\ r1 \in Submits /\ r2 \in Submits
    /\ req[r1].pc = "done" /\ req[r2].pc = "done"
    /\ req[r1].file.present /\ req[r2].file.present
    /\ req[r1].file.content = req[r2].file.content

\* C2, as stated: of two submissions of the same bytes handled one after the
\* other, exactly one row is persisted and the second is answered 409.
C2_OneRowSecondConflict ==
    \A r1, r2 \in Reqs :
        SameBytes(r1, r2) =>
            /\ Cardinality(RowsByHash(sha256File(req[r1].file.content))) = 1
            /\ req[r2].resp.status = 409

\* C2, amended: when the first of the two has persisted its row, the second
\* persists none, so exactly one row holds the fingerprint, and the second is
\* answered 409, or 500 when its upload was refused or its lookup failed.
C2_SecondOfSameBytesRejected ==
    \A r1, r2 \in Reqs :
        (SameBytes(r1, r2) /\ req[r1].created # 0) =>
            /\ Cardinality(RowsByHash(sha256File(req[r1].file.content))) = 1
            /\ req[r2].created = 0
            /\ req[r2].resp.status =
                  (IF req[r2].rejected = "" /\ req[r2].err = "" THEN 409 ELSE 500)

C2_Witness ==
    \E r1, r2 \in Reqs :
        /\ SameBytes(r1, r2)
        /\ req[r1].created # 0
        /\ req[r1].file.originalname # req[r2].file.originalname
        /\ req[r2].resp.status = 409
        /\ Len(entries) = 1

\* C3: every change of a row's status is pending_review -> accepted or
\* pending_review -> rejected.
C3_StatusTransitions ==
    [][\A i \in Rows :
          entries'[i].status # entries[i].status =>
              /\ entries[i].status = "pending_review"
              /\ entries'[i].status \in {"accepted", "rejected"}]_vars

\* C4: an approve or reject whose id matches no row is answered 404 by the
\* step that looked the id up, which changes neither the rows nor the mails;
\* a request answered 404 has run no UPDATE and called no sendMail.
C4_UnknownIdNotFound ==
    [][\A r \in Reviews :
          /\ (/\ req[r].pc = "findByPk"
              /\ req'[r].pc # "findByPk"
              /\ req'[r].err = ""
              /\ \A i \in Rows : entries[i].id # req[r].id)
             => /\ req'[r].resp = Send(404)
                /\ req'[r].pc = "done"
                /\ entries' = entries
                /\ mails' = mails
          /\ req'[r].resp.status = 404
             => /\ req'[r].pc = "done"
                /\ ~req'[r].updated
                /\ req'[r].mail = 0
                /\ \A k \in 1..Len(mails') : mails'[k].req # r]_vars

C4_Witness ==
    \E r \in Reviews :
        /\ req[r].resp.status = 404
        /\ Len(entries) > 0
        /\ \A i \in Rows : entries[i].id # req[r].id

\* C5: the step in which a request's sendMail call ends, failed or not,
\* leaves the rows as they are and answers with the redirect to /admin.
C5_MailFailureSwallowed ==
    [][\A r \in Reviews :
          (req[r].pc = "sendMail" /\ req'[r].pc # "sendMail")
          => /\ entries' = entries
             /\ req'[r].pc = "done"
             /\ req'[r].resp = Redirect("/admin")]_vars

C5_Witness ==
    \E r \in Reviews :
        /\ req[r].pc = "done"
        /\ req[r].mail # 0
        /\ mails[req[r].mail].state = "failed"
        /\ req[r].resp = Redirect("/admin")
        /\ \E i \in Rows : /\ entries[i].id = req[r].id
                           /\ entries[i].status = TargetStatus(req[r].kind)

\* C6: the response does not wait for the notification: whenever a sendMail
\* call has not ended yet, the request that made it has been answered.
C6_ResponseDetached ==
    \A k \in 1..Len(mails) :
        mails[k].state = "pending" => req[mails[k].req].resp # NoResp

\* C7: the lookup step that finds a row with the upload's fingerprint answers
\* 409 and leaves the rows as they are; a request answered 409 has created no
\* row and its file is in uploadsDir under its final name.
C7_DuplicateAbort ==
    [][\A r \in Submits :
          /\ (/\ req[r].pc = "findOne"
              /\ req'[r].pc # "findOne"
              /\ req'[r].err = ""
              /\ \E i \in Rows : entries[i].fileHash = req[r].fileHash)
             => /\ req'[r].resp = Send(409)
                /\ req'[r].pc = "done"
                /\ entries' = entries
          /\ req'[r].resp.status = 409
             => /\ req'[r].created = 0
                /\ \A i \in 1..Len(entries') : entries'[i].paymentProof # req'[r].finalName
                /\ \E f \in uploads' : /\ f.name = req'[r].finalName
                                       /\ f.content = req'[r].file.content]_vars

C7_Witness ==
    \E r \in Submits :
        /\ req[r].resp.status = 409
        /\ Len(entries) = 1
        /\ \E f \in uploads : f.name = req[r].finalName /\ f.name[2] # ""

\* the input-shape errors: no file, a MIME type outside the allow-list, a
\* file over 5 MiB
ShapeError(file) ==
    \/ ~file.present
    \/ file.mimetype \notin {"application/pdf", "image/jpeg", "image/png", "image/webp"}
    \/ file.size > 5 * 1024 * 1024

\* C8: a submission with an input-shape error leaves no file in uploadsDir,
\* creates no row, and is answered with an error.
C8_ShapeErrorsPersistNothing ==
    \A r \in Submits :
        ShapeError(req[r].file) =>
            /\ \A f \in uploads : f.name[1] # r
            /\ req[r].created = 0
            /\ \A i \in Rows : entries[i].paymentProof[1] # r
            /\ req[r].pc = "done"
            /\ req[r].resp.status \in {400, 500}

C8_Witness ==
    \E r1, r2, r3 \in Submits :
        /\ req[r1].pc = "done" /\ req[r2].pc = "done" /\ req[r3].pc = "done"
        /\ ~req[r1].file.present
        /\ req[r2].file.present /\ req[r2].file.mimetype = "application/x-msdownload"
        /\ req[r3].file.present /\ req[r3].file.size > 5 * 1024 * 1024

\* C9: every persisted row has a non-empty category.
C9_CategoryNonEmpty ==
    \A i \in Rows : Truthy(entries[i].duo_category)

\* C10: the score computed for any combination of the scored fields, and so
\* the score of every persisted row, is an integer from 0 to 100.
C10_ScoreRange ==
    /\ \A i \in Rows : entries[i].validation_score \in 0..100
    /\ \A r \in Submits :
          req[r].pc = "create" => req[r].entry.validation_score \in 0..100

C10_Witness ==
    \E i \in Rows :
        /\ entries[i].validation_score = 100
        /\ Truthy(entries[i].athlete1_email) /\ Truthy(entries[i].athlete2_email)
        /\ Truthy(entries[i].athlete1_kit) /\ Truthy(entries[i].athlete2_kit)
        /\ Truthy(entries[i].duo_name) /\ Truthy(entries[i].duo_category)
        /\ Truthy(entries[i].duo_instagram) /\ entries[i].consent
        /\ entries[i].paymentProof[2] = ".pdf"

\* C11 -------------------------------------------------------------------
\* a stored Entry is fully complete when both e-mails, both kits, the duo
\* name, the category and the Instagram handle are filled in and the proof
\* has one of the accepted extensions
FullyComplete(e) ==
    /\ Truthy(e.athlete1_email) /\ Truthy(e.athlete2_email)
    /\ Truthy(e.athlete1_kit) /\ Truthy(e.athlete2_kit)
    /\ Truthy(e.duo_name) /\ Truthy(e.duo_category)
    /\ Truthy(e.duo_instagram)
    /\ toLowerCase(e.paymentProof[2]) \in GoodExts

\* C11, as the claim states it: a fully complete Entry scores 100 with
\* consent and 80 without.
C11_FullScore100Or80 ==
    \A i \in Rows :
        FullyComplete(entries[i]) =>
            entries[i].validation_score = (IF entries[i].consent THEN 100 ELSE 80)

\* C11, amended: a fully complete Entry scores 100 with consent and 85
\* without; the 20 points are taken from the unclamped 105, before the clamp.
C11_FullScore100Or85 ==
    /\ \A i \in Rows :
          FullyComplete(entries[i]) =>
              entries[i].validation_score = (IF entries[i].consent THEN 100 ELSE 85)
    /\ \A r \in Submits :
          (req[r].pc = "create" /\ FullyComplete(req[r].entry)) =>
              req[r].entry.validation_score = (IF req[r].entry.consent THEN 100 ELSE 85)

C11_Witness ==
    \E i \in Rows :
        /\ FullyComplete(entries[i])
        /\ ~entries[i].consent
        /\ entries[i].validation_score = 85

\* C12, C13, C14 ----------------------------------------------------------
Lists == {r \in Reqs : req[r].kind \in {"admin", "export"}}

\* the listing or export r has rendered its totals
Rendered(r) == req[r].pc = "done" /\ req[r].resp.status = 200

\* the athlete kit fields of the rows that are not empty, one per field
KitFields(rows) ==
    concatAll([k \in 1..Len(rows) |->
                  SelectSeq(<<rows[k].athlete1_kit, rows[k].athlete2_kit>>, Truthy)])

\* the sum of the counts of a totals map
RECURSIVE SumTotals(_, _)
SumTotals(totals, keys) ==
    IF keys = {} THEN 0
    ELSE LET key == CHOOSE k \in keys : TRUE
         IN  totals[key] + SumTotals(totals, keys \ {key})

\* the row was inserted by a submit request of this behaviour
CreatedBySubmit(e) == \E q \in Submits : req[q].created = e.id

\* C12: over rows created by submit, the totals a listing or an export
\* renders sum to the number of non-empty athlete kit fields of those rows:
\* every kit is counted once, never through both the kit fields and uniforms.
C12_NoDoubleCounting ==
    \A r \in Lists :
        (/\ Rendered(r)
         /\ \A k \in 1..Len(req[r].listed) : CreatedBySubmit(req[r].listed[k]))
        => SumTotals(req[r].totals, DOMAIN req[r].totals) = Len(KitFields(req[r].listed))

\* the row carries its kits in uniforms alone, as "a / b"
LegacyOnly(e) ==
    /\ ~Truthy(e.athlete1_kit) /\ ~Truthy(e.athlete2_kit)
    /\ e.uniforms # Undef
    /\ Len(splitSlash(e.uniforms)) = 2

\* the sides of "a / b" that are not empty, trimmed
LegacySides(e) ==
    SelectSeq(<<trim(splitSlash(e.uniforms)[1]), trim(splitSlash(e.uniforms)[2])>>, Truthy)

\* C13: when the rows a listing or an export reads are one row with the
\* legacy string "a / b" and no kit fields, the totals it renders are one
\* increment for the normalized label of each non-empty side and nothing
\* else; the empty kit fields and an empty side add no key.
C13_LegacyOnlyTotals ==
    \A r \in Lists :
        (Rendered(r) /\ Len(req[r].listed) = 1 /\ LegacyOnly(req[r].listed[1]))
        => req[r].totals =
              uniformTotals([k \in 1..Len(LegacySides(req[r].listed[1])) |->
                                normalizeKit(LegacySides(req[r].listed[1])[k])])

\* C14: when every athlete of the rows a listing or an export reads has a
\* kit, the keys of the totals it renders are the normalized labels of those
\* kits: kits with the same normalized label are counted under that one key.
C14_SameLabelSameKey ==
    \A r \in Lists :
        (/\ Rendered(r)
         /\ \A k \in 1..Len(req[r].listed) :
               /\ CreatedBySubmit(req[r].listed[k])
               /\ Truthy(req[r].listed[k].athlete1_kit)
               /\ Truthy(req[r].listed[k].athlete2_kit))
        => DOMAIN req[r].totals =
              {normalizeKit(KitFields(req[r].listed)[k]) :
                  k \in 1..Len(KitFields(req[r].listed))}

\* C15 -------------------------------------------------------------------
\* C15: no step removes a row or changes a field of a row other than status;
\* a step adds at most one row, and the step that adds one is the Entry.create
\* of a submit request that is answered with the redirect to the thank-you
\* page in that step.
C15_OnlyStatusChanges ==
    [][/\ Len(entries') >= Len(entries)
       /\ \A i \in Rows : [entries'[i] EXCEPT !.status = entries[i].status] = entries[i]
       /\ Len(entries') > Len(entries) =>
             /\ Len(entries') = Len(entries) + 1
             /\ \E r \in Submits :
                   /\ req[r].pc = "create"
                   /\ req'[r].pc = "done"
                   /\ req'[r].resp = Redirect("/obrigado.html")
                   /\ req'[r].created = entries'[Len(entries')].id]_vars

C15_Witness ==
    \E r \in Reviews, q \in Submits, i \in Rows :
        /\ req[r].updated
        /\ req[q].created = entries[i].id
        /\ req[r].id = entries[i].id
        /\ entries[i].status = "accepted"
        /\ entries[i] = [req[q].entry EXCEPT !.id = req[q].created, !.status = "accepted"]

\* C16 -------------------------------------------------------------------
\* C16: the server comes to listen only from the state reached when
\* authenticate and then sync have succeeded; a request is taken up or
\* advanced only while the server listens; a process that has exited stays
\* exited, and then no request has ever been handled.
C16_ServeOnlyAfterStartup ==
    [][/\ (server' = "listening" /\ server # "listening") => server = "synced"
       /\ (server' = "synced" /\ server # "synced") => server = "authenticated"
       /\ (server' = "authenticated" /\ server # "authenticated") => server = "starting"
       /\ server' # "listening" => \A r \in Reqs : req'[r] = IdleReq
       /\ req' # req => server = "listening"
       /\ server = "exited" => server' = "exited"]_vars

C16_Witness ==
    /\ server = "listening"
    /\ \E r \in Reqs : req[r].pc = "done" /\ req[r].resp.status = 302

\* C17 -------------------------------------------------------------------
\* C17: a submit, approve or reject request that met a store failure has
\* been answered, and with status 500.  (err is set by the step in which the
\* handling of the request ends; no later step changes the request.)
C17_StoreFailureAnswered500 ==
    \A r \in Submits \cup Reviews :
        req[r].err = "store" => (req[r].pc = "done" /\ req[r].resp.status = 500)

\* C18 -------------------------------------------------------------------
\* the approve or reject r found its row already in the status it asks for
Repeated(r) == req[r].entry.status = TargetStatus(req[r].kind)

\* C18: an approve of an accepted row (a reject of a rejected one) goes as a
\* first one does: its UPDATE succeeds and leaves the rows as they are, its
\* notification is handed to the mailer when the row names a recipient, and
\* it is answered with the redirect to /admin.
C18_RepeatLikeFirst ==
    [][\A r \in Reviews :
          /\ (/\ req[r].pc = "update" /\ req'[r].pc # "update" /\ req'[r].err = ""
              /\ \A i \in RowsById(req[r].id) :
                    entries[i].status = TargetStatus(req[r].kind))
             => (entries' = entries /\ req'[r].updated)
          /\ (req[r].pc = "sendStatusEmail" /\ req'[r].pc # "sendStatusEmail"
              /\ Repeated(r) /\ Recipients(req[r].entry) # <<>>)
             => /\ Len(mails') = Len(mails) + 1
                /\ mails'[Len(mails')].id = req[r].id
                /\ mails'[Len(mails')].status = TargetStatus(req[r].kind)
                /\ mails'[Len(mails')].req = r
          /\ (Repeated(r) /\ req'[r].updated /\ req'[r].pc = "done")
             => req'[r].resp = Redirect("/admin")]_vars

C18_Witness ==
    \E r1, r2 \in Reviews :
        /\ r1 # r2
        /\ req[r1].kind = "approve" /\ req[r2].kind = "approve"
        /\ req[r1].id = req[r2].id
        /\ ~Repeated(r1) /\ Repeated(r2)
        /\ req[r1].resp = Redirect("/admin") /\ req[r2].resp = Redirect("/admin")
        /\ req[r1].mail # 0 /\ req[r2].mail > req[r1].mail
        /\ mails[req[r2].mail].status = "accepted"
        /\ \A i \in RowsById(req[r2].id) : entries[i].status = "accepted"

\* C19 -------------------------------------------------------------------
\* C19: a notification is handed to the mailer only by a request whose
\* UPDATE has already run, for the status that UPDATE wrote and the row it
\* addressed; that row holds a status some completed UPDATE wrote; a request
\* that met a store failure has handed over no notification.
C19_NotifyAfterUpdate ==
    [][/\ \A k \in (Len(mails) + 1)..Len(mails') :
             /\ req[mails'[k].req].updated
             /\ mails'[k].status = TargetStatus(req[mails'[k].req].kind)
             /\ mails'[k].id = req[mails'[k].req].id
             /\ \A i \in RowsById(mails'[k].id) :
                   entries[i].status \in {"accepted", "rejected"}
       /\ \A r \in Reviews :
             req'[r].err = "store" =>
                 /\ req'[r].mail = 0
                 /\ \A k \in 1..Len(mails') : mails'[k].req # r]_vars

C19_Witness ==
    \E k \in 1..Len(mails) :
        /\ mails[k].status = "rejected"
        /\ req[mails[k].req].updated
        /\ \E r \in Reviews : req[r].err = "store" /\ req[r].mail = 0

\* C20 -------------------------------------------------------------------
\* the index in mails of the last notification for the row id
LastMail(id) ==
    CHOOSE k \in 1..Len(mails) :
        /\ mails[k].id = id
        /\ \A j \in 1..Len(mails) : mails[j].id = id => j <= k

\* C20: when an approve and a reject of the same row, each of which found
\* the row before the other's UPDATE, have both been answered and have both
\* sent their notification, the row holds the status of the last
\* notification handed to the mailer for it.
C20_LastNotificationMatchesStore ==
    \A r1, r2 \in Reviews :
        (/\ req[r1].kind = "approve" /\ req[r2].kind = "reject"
         /\ req[r1].id = req[r2].id
         /\ req[r1].entry.status = "pending_review"
         /\ req[r2].entry.status = "pending_review"
         /\ req[r1].pc = "done" /\ req[r2].pc = "done"
         /\ req[r1].mail # 0 /\ req[r2].mail # 0)
        => \A i \in RowsById(req[r1].id) :
              entries[i].status = mails[LastMail(req[r1].id)].status

\* C21 -------------------------------------------------------------------
\* C21: when a listing and an export have read the same rows, the totals
\* they render are the same map, with the same keys and the same counts.
C21_ListingAndExportAgree ==
    \A r1, r2 \in Lists :
        (/\ req[r1].kind = "admin" /\ req[r2].kind = "export"
         /\ Rendered(r1) /\ Rendered(r2)
         /\ req[r1].listed = req[r2].listed)
        => req[r1].totals = req[r2].totals

====
